---- MODULE Spec2Model ----
(***************************************************************************)
(* psminimize: the transformation pipeline of src/main.go (the second,     *)
(* current program of the file, lines 303-745).  A script is a sequence of *)
(* lines; a line is a sequence of one-character strings.  main() runs      *)
(*   stripAllComments -> shortenAllVariableNames -> removeExtraSpaces      *)
(*   -> removeAllNewLines -> saveToFile                                    *)
(* over the lines held in memory.                                          *)
(***************************************************************************)
EXTENDS Integers, Sequences, FiniteSets, TLC

VARIABLES
    pc,      \* the statement of main() (or of the function under study) to run next
    orig,    \* originalLines: the lines as read
    lines,   \* minimizedLines: the lines being rewritten in place
    i,       \* stripAllComments: index (1-based) of the next line to strip
    multi,   \* stripAllComments: inside a block comment
    psVars,  \* shortenAllVariableNames: the PSVariables slice
    file     \* saveToFile: the text written, or NoFile

vars == <<pc, orig, lines, i, multi, psVars, file>>

NoFile == <<"<none>">>

(***************************************************************************)
(* Characters and strings                                                  *)
(***************************************************************************)
\* The bytes 35, 92, 96, 60 and 62.  A TLA+ string literal cannot hold the
\* grave accent (byte 96): the one-element string "BQ" stands for it.
CHARComment == "#"
ESCChar1 == "\\"
ESCChar2 == "BQ"
LT == "<"
GT == ">"

Upper == <<"A","B","C","D","E","F","G","H","I","J","K","L","M",
           "N","O","P","Q","R","S","T","U","V","W","X","Y","Z">>
Lower == <<"a","b","c","d","e","f","g","h","i","j","k","l","m",
           "n","o","p","q","r","s","t","u","v","w","x","y","z">>
Digits == <<"0","1","2","3","4","5","6","7","8","9">>

Range(s) == {s[k] : k \in DOMAIN s}

\* strings.ToUpper on one byte
ToUpperChar(c) ==
    IF \E k \in DOMAIN Lower : Lower[k] = c
    THEN Upper[CHOOSE k \in DOMAIN Lower : Lower[k] = c]
    ELSE c

\* strings.ToUpper
ToUpper(s) == [k \in DOMAIN s |-> ToUpperChar(s[k])]

\* strconv.Itoa for n >= 0
RECURSIVE Itoa(_)
Itoa(n) == IF n < 10 THEN <<Digits[n + 1]>>
           ELSE Itoa(n \div 10) \o <<Digits[(n % 10) + 1]>>

\* strings.HasPrefix(s[at:], old), at 1-based
MatchAt(s, at, old) ==
    /\ at + Len(old) - 1 <= Len(s)
    /\ \A k \in 1..Len(old) : s[at + k - 1] = old[k]

\* strings.Contains
Contains(s, old) == \E at \in 1..(Len(s) + 1) : MatchAt(s, at, old)

RECURSIVE ReplaceFrom(_,_,_,_)
ReplaceFrom(s, at, old, new) ==
    IF at > Len(s) THEN <<>>
    ELSE IF MatchAt(s, at, old)
         THEN new \o ReplaceFrom(s, at + Len(old), old, new)
         ELSE <<s[at]>> \o ReplaceFrom(s, at + 1, old, new)

\* strings.Replace(s, old, new, -1) for a non-empty old: every non-overlapping
\* occurrence, leftmost first
Replace(s, old, new) == ReplaceFrom(s, 1, old, new)

\* the concatenation of a sequence of strings
RECURSIVE Flat(_)
Flat(ss) == IF ss = <<>> THEN <<>> ELSE Head(ss) \o Flat(Tail(ss))

\* the lines made of at most n words of W, one after the other
RECURSIVE LinesOf(_,_)
LinesOf(W, n) ==
    IF n = 0 THEN {<<>>}
    ELSE LET shorter == LinesOf(W, n - 1)
         IN shorter \cup {l \o w : l \in shorter, w \in W}

\* the two-line scripts made of at most n words of W together
TwoLinesOf(W, n) ==
    UNION {{<<l1, l2>> : l1 \in LinesOf(W, k), l2 \in LinesOf(W, n - k)} : k \in 0..n}

(***************************************************************************)
(* CommentStripper                                                         *)
(***************************************************************************)
StripPanic == [line |-> <<>>, multi |-> FALSE, panic |-> TRUE]

isEscape_OnlyBackslash(c) == c = ESCChar1

\* "Ruling out escaped comment character": the byte before the marker
isEscape(c) == c = ESCChar1 \/ c = ESCChar2

keepEscaped_Unescape(minLine, c) ==
    Append(SubSeq(minLine, 1, Len(minLine) - 1), c)

\* an escaped marker is appended to minLine
keepEscaped(minLine, c) == Append(minLine, c)

dropStart_Keep(minLine) == minLine

\* "remove the start character found": minLine[:len(minLine)-1]
dropStart(minLine) == SubSeq(minLine, 1, Len(minLine) - 1)

\* the look-ahead of the block-comment branch: line[i+1] is read whenever
\* len(line) >= i, which holds at every index of the loop
canLookAhead(line, at) == Len(line) >= at - 1

\* The for loop of stripComments; at is the 1-based index (i of the source is at - 1).
\* An index outside the line is a run-time panic.
RECURSIVE stripLoop(_,_,_,_)
stripLoop(line, at, m, minLine) ==
    IF at > Len(line) THEN [line |-> minLine, multi |-> m, panic |-> FALSE]
    ELSE IF m THEN
        IF line[at] = CHARComment THEN
            IF ~canLookAhead(line, at) THEN stripLoop(line, at + 1, m, minLine)
            ELSE IF at + 1 > Len(line) THEN StripPanic           \* line[i+1]
            ELSE IF line[at + 1] = GT
                 THEN stripLoop(line, at + 2, FALSE, minLine)
                 ELSE stripLoop(line, at + 1, m, minLine)
        ELSE stripLoop(line, at + 1, m, minLine)
    ELSE IF line[at] = CHARComment THEN
        IF at = 1 THEN StripPanic                                \* line[i-1]
        ELSE IF isEscape(line[at - 1])
             THEN stripLoop(line, at + 1, m, keepEscaped(minLine, line[at]))
        ELSE IF line[at - 1] = LT
             THEN IF minLine = <<>> THEN StripPanic              \* minLine[:-1]
                  ELSE stripLoop(line, at + 1, TRUE, dropStart(minLine))
        ELSE [line |-> minLine, multi |-> m, panic |-> FALSE]    \* break
    ELSE stripLoop(line, at + 1, m, Append(minLine, line[at]))

\* the switch before the loop
stripEarly(line) == Len(line) <= 0 \/ line[1] = CHARComment

stripComments(line, m) ==
    IF stripEarly(line)
    THEN [line |-> <<>>, multi |-> m, panic |-> FALSE]
    ELSE stripLoop(line, 1, m, <<>>)

\* stripAllComments over a whole slice, from the Normal state
RECURSIVE stripFrom(_,_,_)
stripFrom(ls, k, m) ==
    IF k > Len(ls) THEN [lines |-> ls, multi |-> m, panic |-> FALSE]
    ELSE LET r == stripComments(ls[k], m)
         IN IF r.panic THEN [lines |-> ls, multi |-> m, panic |-> TRUE]
            ELSE stripFrom([ls EXCEPT ![k] = r.line], k + 1, r.multi)

stripAllComments(ls) == stripFrom(ls, 1, FALSE)

\* one iteration of the loop of stripAllComments
StripLine ==
    /\ pc = "strip"
    /\ i <= Len(lines)
    /\ LET r == stripComments(lines[i], multi)
       IN /\ ~r.panic
          /\ lines' = [lines EXCEPT ![i] = r.line]
          /\ multi' = r.multi
    /\ i' = i + 1
    /\ UNCHANGED <<pc, orig, psVars, file>>

\* the iteration indexes outside the line: the process dies
StripCrash ==
    /\ pc = "strip"
    /\ i <= Len(lines)
    /\ stripComments(lines[i], multi).panic
    /\ pc' = "panic"
    /\ UNCHANGED <<orig, lines, i, multi, psVars, file>>

\* the loop is over: stripAllComments returns
StripReturn ==
    /\ pc = "strip"
    /\ i > Len(lines)
    /\ pc' = "shorten"
    /\ UNCHANGED <<orig, lines, i, multi, psVars, file>>

(***************************************************************************)
(* VariableRenamer                                                         *)
(***************************************************************************)
\* the 51 bytes 65..90, 97..121
varShortNames == Upper \o SubSeq(Lower, 1, 25)

Sigil == "$"

\* The reserved-identifier table (reservedPSVariables) is declared in a file of
\* the repository that is not part of the sources at hand: a few of the host
\* language's automatic variables stand for it, in their case-normalized form.
reservedPSVariables ==
    { <<"$", "_">>,
      <<"$", "T", "R", "U", "E">>,
      <<"$", "F", "A", "L", "S", "E">>,
      <<"$", "N", "U", "L", "L">> }

\* the class [A-Z0-9a-z_] of psVarReg
IsVarChar(c) == c \in Range(Upper) \cup Range(Digits) \cup Range(Lower) \cup {"_"}

\* the end (exclusive) of the longest run of [A-Z0-9a-z_] from at
RECURSIVE VarEnd(_,_)
VarEnd(line, at) ==
    IF at <= Len(line) /\ IsVarChar(line[at]) THEN VarEnd(line, at + 1) ELSE at

\* psVarReg.FindAllStringSubmatch(line, -1): the successive leftmost matches of
\* [BQ]?\$[A-Z0-9a-z_]* (BQ the grave accent), each greedy
RECURSIVE FindAllFrom(_,_)
FindAllFrom(line, at) ==
    IF at > Len(line) THEN <<>>
    ELSE IF line[at] = ESCChar2 /\ at + 1 <= Len(line) /\ line[at + 1] = Sigil
         THEN LET e == VarEnd(line, at + 2)
              IN <<SubSeq(line, at, e - 1)>> \o FindAllFrom(line, e)
    ELSE IF line[at] = Sigil
         THEN LET e == VarEnd(line, at + 1)
              IN <<SubSeq(line, at, e - 1)>> \o FindAllFrom(line, e)
    ELSE FindAllFrom(line, at + 1)

FindAll(line) == FindAllFrom(line, 1)

\* every match of every line, in order
AllMatches(ls) == Flat([k \in DOMAIN ls |-> FindAll(ls[k])])

\* psVarMap: the case-normalized names with their number of matches
psVarMap(ls) ==
    LET ms == AllMatches(ls)
        names == {ToUpper(ms[k]) : k \in DOMAIN ms}
    IN [n \in names |-> Cardinality({k \in DOMAIN ms : ToUpper(ms[k]) = n})]

\* the PSVariable built for the map entry k -> v
NewPSVariable(k, v) ==
    LET reserved == k \in reservedPSVariables \/ k[1] = ESCChar2
    IN [OriginalName |-> k,
        UniqueName   |-> <<>>,
        ShortName    |-> IF reserved THEN k ELSE <<>>,
        Count        |-> v,
        Reserved     |-> reserved]

\* the orders in which a range over a map with the keys S may yield them
MapOrders(S) ==
    {f \in [1..Cardinality(S) -> S] : \A x \in S : \E k \in DOMAIN f : f[k] = x}

\* getVariables, with order the order in which the range over psVarMap yields
\* the names (the language leaves it unspecified and randomizes it)
getVariables(ls, order) ==
    LET m == psVarMap(ls)
    IN [k \in DOMAIN order |-> NewPSVariable(order[k], m[order[k]])]

\* PSVariables.Less
LessCount(a, b) == a.Count > b.Count

\* PSVariablesNameMod.Less
LessNameLen(a, b) == Len(a.OriginalName) > Len(b.OriginalName)

\* data.Swap(j, j-1)
Swap(p, j) == [p EXCEPT ![j] = p[j - 1], ![j - 1] = p[j]]

\* sort.Sort on a short slice (at most 6 elements in every release of the
\* library, 12 in the current ones) is an insertion sort, which keeps the order
\* of elements that compare equal:
\*   for i := a+1; i < b; i++ { for j := i; j > a && Less(j, j-1); j-- { Swap(j, j-1) } }
\* with the Less of the slice type sorted: "Count" for PSVariables, "NameMod"
\* for PSVariablesNameMod
Less(by, a, b) == IF by = "Count" THEN LessCount(a, b) ELSE LessNameLen(a, b)

RECURSIVE sinkDown(_,_,_)
sinkDown(p, j, by) ==
    IF j > 1 /\ Less(by, p[j], p[j - 1]) THEN sinkDown(Swap(p, j), j - 1, by) ELSE p

RECURSIVE insertionSort(_,_,_)
insertionSort(p, k, by) ==
    IF k > Len(p) THEN p ELSE insertionSort(sinkDown(p, k, by), k + 1, by)

\* PSVariables.Sort: by descending count
Sort(p) == insertionSort(p, 2, "Count")

\* sort.Sort(PSVariablesNameMod(p)): by descending length of the original name
SortNameMod(p) == insertionSort(p, 2, "NameMod")

HexLower == <<"0","1","2","3","4","5","6","7","8","9","a","b","c","d","e","f">>

\* id.String() of the k-th identifier drawn from the random source started at
\* seed.  Only that the identifiers of one run differ, have one length and are
\* made of hexadecimal digits and dashes matters to the pipeline: two digits
\* and a dash stand for the 32 digits and 4 dashes.
uuidString(seed, k) ==
    LET n == (seed + k) % 256
    IN <<HexLower[(n \div 16) + 1], "-", HexLower[(n % 16) + 1]>>

AliasPrefix == <<"$", "~", "~">>

\* assignUniqueRandomNames
assignUniqueRandomNames(p, seed) ==
    SortNameMod([k \in DOMAIN p |->
        [p[k] EXCEPT !.UniqueName = AliasPrefix \o ToUpper(uuidString(seed, k))]])

shortNameAt_NoSuffix(nameIter, count) ==
    <<Sigil, varShortNames[(nameIter - (51 * count)) + 1]>>

\* the short name built at nameIter with the suffix counter count
shortNameAt(nameIter, count) ==
    <<Sigil, varShortNames[(nameIter - (51 * count)) + 1]>>
        \o (IF count > 0 THEN Itoa(count - 1) ELSE <<>>)

\* the loop of generateShortNames from index k (1-based)
RECURSIVE generateFrom(_,_,_,_)
generateFrom(p, k, count, nameIter) ==
    IF k > Len(p) THEN p
    ELSE IF p[k].Reserved THEN generateFrom(p, k + 1, count, nameIter)
    ELSE generateFrom([p EXCEPT ![k].ShortName = shortNameAt(nameIter, count)],
                      k + 1,
                      IF ((nameIter + 1) % 51) = 0 THEN count + 1 ELSE count,
                      nameIter + 1)

generateShortNames(p) == generateFrom(p, 1, 0, 0)

\* strings.Replace of the field from of every variable by its field to, in
\* slice order from index k
RECURSIVE replaceEach(_,_,_,_,_)
replaceEach(line, p, k, from, to) ==
    IF k > Len(p) THEN line
    ELSE replaceEach(Replace(line, p[k][from], p[k][to]), p, k + 1, from, to)

\* replaceVariablesWithUnique: the slice sorted again, each line upper-cased and
\* every original name replaced by its alias
replaceVariablesWithUnique(p, ls) ==
    LET q == SortNameMod(p)
    IN [p |-> q,
        lines |-> [k \in DOMAIN ls |->
                      replaceEach(ToUpper(ls[k]), q, 1, "OriginalName", "UniqueName")]]

\* replaceUniqueWithShort
replaceUniqueWithShort(p, ls) ==
    [k \in DOMAIN ls |-> replaceEach(ls[k], p, 1, "UniqueName", "ShortName")]

\* shortenVariables
shortenVariables(p, ls, seed) ==
    LET p1 == Sort(p)
        p2 == assignUniqueRandomNames(p1, seed)
        p3 == generateShortNames(p2)
        r  == replaceVariablesWithUnique(p3, ls)
    IN [p |-> r.p, lines |-> replaceUniqueWithShort(r.p, r.lines)]

MaxSeed == 1

\* the states the random source may start in
Seeds == {171 + (5 * s) : s \in 0..MaxSeed}

\* shortenAllVariableNames
ShortenAllVariableNames ==
    /\ pc = "shorten"
    /\ \E order \in MapOrders(DOMAIN psVarMap(lines)), seed \in Seeds :
          LET r == shortenVariables(getVariables(lines, order), lines, seed)
          IN /\ psVars' = r.p
             /\ lines' = r.lines
    /\ pc' = "spaces"
    /\ UNCHANGED <<orig, i, multi, file>>

\* uuid.NewRandom returns an error for the variable at index failAt: the
\* variables before it have their alias, panicOnErr panics before the sort
\* at the end of assignUniqueRandomNames
assignUntilFailure(p, seed, failAt) ==
    [k \in DOMAIN p |->
        IF k < failAt
        THEN [p[k] EXCEPT !.UniqueName = AliasPrefix \o ToUpper(uuidString(seed, k))]
        ELSE p[k]]

\* the same failure had the aliases been assigned after the first
\* substitution pass
shortenUntilFailure_AfterReplace(p, ls, seed, failAt) ==
    LET p1 == Sort(p)
        r  == replaceVariablesWithUnique(generateShortNames(p1), ls)
    IN [p |-> assignUntilFailure(r.p, seed, failAt), lines |-> r.lines]

\* shortenVariables up to the panic: the slice is sorted by count, the
\* aliases are being assigned, no line has been touched
shortenUntilFailure(p, ls, seed, failAt) ==
    LET p1 == Sort(p)
    IN [p |-> assignUntilFailure(p1, seed, failAt), lines |-> ls]

\* shortenAllVariableNames when the random source fails
ShortenPanic ==
    /\ pc = "shorten"
    /\ \E order \in MapOrders(DOMAIN psVarMap(lines)), seed \in Seeds :
          LET p == getVariables(lines, order)
          IN \E failAt \in DOMAIN p :
                LET r == shortenUntilFailure(p, lines, seed, failAt)
                IN /\ psVars' = r.p
                   /\ lines' = r.lines
    /\ pc' = "panic"
    /\ UNCHANGED <<orig, i, multi, file>>

(***************************************************************************)
(* SpacingCompactor                                                        *)
(***************************************************************************)
\* strings.Replace(line, " " + t, t, -1) and strings.Replace(line, t + " ", t, -1)
\* a substitution that puts the space back
SpaceBefore_Kept(t) == [old |-> <<" ">> \o t, new |-> <<" ">> \o t]

SpaceBefore(t) == [old |-> <<" ">> \o t, new |-> t]
SpaceAfter(t) == [old |-> t \o <<" ">>, new |-> t]

\* the substitutions of removeExtraSpaces, in the order of the source
spaceSubstitutions ==
    << SpaceBefore(<<"=">>), SpaceAfter(<<"=">>),
       SpaceBefore(<<"+">>), SpaceAfter(<<"+">>),
       SpaceAfter(<<"-">>),
       SpaceBefore(<<"*">>), SpaceAfter(<<"*">>),
       SpaceBefore(<<"-", "E", "Q">>), SpaceAfter(<<"-", "E", "Q">>),
       SpaceBefore(<<"-", "G", "T">>), SpaceAfter(<<"-", "G", "T">>),
       SpaceBefore(<<"-", "L", "T">>), SpaceAfter(<<"-", "L", "T">>),
       SpaceBefore(<<"-", "N", "E">>), SpaceAfter(<<"-", "N", "E">>),
       SpaceBefore(<<"-", "L", "E">>), SpaceAfter(<<"-", "L", "E">>),
       SpaceBefore(<<"-", "G", "E">>), SpaceAfter(<<"-", "G", "E">>),
       SpaceBefore(<<"/">>), SpaceAfter(<<"/">>),
       SpaceAfter(<<"(">>), SpaceBefore(<<"(">>),
       SpaceBefore(<<")">>), SpaceAfter(<<")">>),
       SpaceAfter(<<"[">>), SpaceBefore(<<"[">>),
       SpaceBefore(<<"]">>), SpaceAfter(<<"]">>),
       SpaceAfter(<<"{">>), SpaceBefore(<<"{">>),
       SpaceBefore(<<"}">>), SpaceAfter(<<"}">>),
       SpaceAfter(<<";">>), SpaceBefore(<<";">>) >>

\* the substitutions from the k-th on, applied to a line one after the other
RECURSIVE substituteFrom(_,_)
substituteFrom(line, k) ==
    IF k > Len(spaceSubstitutions) THEN line
    ELSE substituteFrom(
             Replace(line, spaceSubstitutions[k].old, spaceSubstitutions[k].new),
             k + 1)

\* removeExtraSpaces
removeExtraSpaces(ls) == [k \in DOMAIN ls |-> substituteFrom(ls[k], 1)]

RemoveExtraSpaces ==
    /\ pc = "spaces"
    /\ lines' = removeExtraSpaces(lines)
    /\ pc' = "join"
    /\ UNCHANGED <<orig, i, multi, psVars, file>>

(***************************************************************************)
(* LineJoiner                                                              *)
(***************************************************************************)
\* the white space of strings.TrimSpace among the bytes of a line
IsSpace(c) == c \in {" ", "\t", "\n", "\r", "\f"}

RECURSIVE TrimLeft(_)
TrimLeft(s) == IF s # <<>> /\ IsSpace(Head(s)) THEN TrimLeft(Tail(s)) ELSE s

RECURSIVE TrimRight(_)
TrimRight(s) ==
    IF s # <<>> /\ IsSpace(s[Len(s)]) THEN TrimRight(SubSeq(s, 1, Len(s) - 1)) ELSE s

\* strings.TrimSpace
TrimSpace(s) == TrimRight(TrimLeft(s))

\* strings.TrimSuffix for a one-byte suffix
TrimSuffix(s, c) ==
    IF s # <<>> /\ s[Len(s)] = c THEN SubSeq(s, 1, Len(s) - 1) ELSE s

ParamKeyword == <<"P", "A", "R", "A", "M">>

\* the loop body with ")" among the characters that get nothing appended
joinLine_ParenContinues(line) ==
    LET l == TrimSuffix(TrimSuffix(TrimSpace(line), "\n"), "\r")
        last == l[Len(l)]
    IN IF l = <<>> THEN <<>>
       ELSE IF last \in {"}", "{", "(", ")", ";"} THEN <<l>>
       ELSE IF last = "]" THEN <<l \o <<"\n">>>>
       ELSE IF last = "M" THEN
            IF Len(l) >= 5 THEN <<l>> ELSE <<l \o <<";">>>>
       ELSE <<l \o <<";">>>>

\* the loop body with "]" handled by the default case
joinLine_BracketSeparator(line) ==
    LET l == TrimSuffix(TrimSuffix(TrimSpace(line), "\n"), "\r")
        last == l[Len(l)]
    IN IF l = <<>> THEN <<>>
       ELSE IF last \in {"}", "{", "(", ";"} THEN <<l>>
       ELSE IF last = "M" THEN
            IF Len(l) >= 5 THEN <<l>> ELSE <<l \o <<";">>>>
       ELSE <<l \o <<";">>>>

\* the body of the loop of removeAllNewLines for one line: the lines it
\* appends to minimizedLines (none or one)
joinLine(line) ==
    LET l == TrimSuffix(TrimSuffix(TrimSpace(line), "\n"), "\r")
        last == l[Len(l)]
    IN IF l = <<>> THEN <<>>
       ELSE IF last \in {"}", "{", "(", ";"} THEN <<l>>
       ELSE IF last = "]" THEN <<l \o <<"\n">>>>
       ELSE IF last = "M" THEN
            IF Len(l) >= 5
            THEN IF SubSeq(l, Len(l) - 4, Len(l)) = ParamKeyword
                 THEN <<l>>                   \* appended, continue
                 ELSE <<l>>                   \* no branch taken: appended after the switch
            ELSE <<l \o <<";">>>>
       ELSE <<l \o <<";">>>>

\* removeAllNewLines
removeAllNewLines(ls) == Flat([k \in DOMAIN ls |-> joinLine(ls[k])])

RemoveAllNewLines ==
    /\ pc = "join"
    /\ lines' = removeAllNewLines(lines)
    /\ pc' = "save"
    /\ UNCHANGED <<orig, i, multi, psVars, file>>

\* saveToFile: every line written, nothing between the lines
SaveToFile ==
    /\ pc = "save"
    /\ file' = Flat(lines)
    /\ pc' = "done"
    /\ UNCHANGED <<orig, lines, i, multi, psVars>>

(***************************************************************************)
(* Inputs of the spacing compactor: renamed lines (upper case) built from  *)
(* spaces, operators and plain characters.                                 *)
(***************************************************************************)
MaxSpaceWords == 4

SpaceWords == { <<" ">>, <<"A">>, <<"=">>, <<"+">>, <<"-">>, <<"-", "E", "Q">>, <<")">> }

\* the tokens removeExtraSpaces names in its substitutions
operatorTokens ==
    { <<"=">>, <<"+">>, <<"-">>, <<"*">>, <<"/">>,
      <<"-", "E", "Q">>, <<"-", "N", "E">>, <<"-", "L", "T">>,
      <<"-", "L", "E">>, <<"-", "G", "T">>, <<"-", "G", "E">>,
      <<"(">>, <<")">>, <<"[">>, <<"]">>, <<"{">>, <<"}">>, <<";">> }

MaxOperand == 1

\* operands of at most MaxOperand letters
Operands == LinesOf({<<"A">>, <<"B">>}, MaxOperand) \ {<<>>}

\* a line with one token between two operands, a space or none on each side
TokenLine(l, before, t, after, r) ==
    l \o (IF before THEN <<" ">> ELSE <<>>) \o t \o (IF after THEN <<" ">> ELSE <<>>) \o r

TokenLines ==
    {TokenLine(l, before, t, after, r) :
        l \in Operands, before \in BOOLEAN, t \in operatorTokens,
        after \in BOOLEAN, r \in Operands}

SpaceInputs ==
    {<<l>> : l \in LinesOf(SpaceWords, MaxSpaceWords)}
    \cup {<<l>> : l \in TokenLines}

InitSpace ==
    /\ orig \in SpaceInputs
    /\ lines = orig
    /\ pc = "spaces"
    /\ i = Len(orig) + 1
    /\ multi = FALSE
    /\ psVars = <<>>
    /\ file = NoFile

NextSpace == RemoveExtraSpaces

SpecSpace == InitSpace /\ [][NextSpace]_vars

(***************************************************************************)
(* removeAllNewLines alone, over lines ending in each character of the     *)
(* switch                                                                  *)
(***************************************************************************)
MaxJoinWords == 3

JoinWords ==
    { <<" ">>, <<"a">>, <<"P">>, <<"A", "R", "A", "M">>,
      <<"{">>, <<"}">>, <<"(">>, <<")">>, <<";">>, <<"]">> }

JoinInputs ==
    {<<l>> : l \in LinesOf(JoinWords, MaxJoinWords)}
    \cup TwoLinesOf(JoinWords, MaxJoinWords)
    \cup {<<>>}

InitJoin ==
    /\ orig \in JoinInputs
    /\ lines = orig
    /\ pc = "join"
    /\ i = Len(orig) + 1
    /\ multi = FALSE
    /\ psVars = <<>>
    /\ file = NoFile

NextJoin == RemoveAllNewLines

SpecJoin == InitJoin /\ [][NextJoin]_vars

(***************************************************************************)
(* main(): the whole pipeline over small scripts with comments, variables, *)
(* spaces and an operator.                                                 *)
(***************************************************************************)
MaxWords == 3

Words == { <<"$", "a">>, <<"$", "b">>, <<"#">>, <<"<", "#">>, <<" ">>, <<"=">>, <<"x">> }

Inputs == TwoLinesOf(Words, MaxWords)

Init ==
    /\ orig \in Inputs
    /\ lines = orig
    /\ pc = "strip"
    /\ i = 1
    /\ multi = FALSE
    /\ psVars = <<>>
    /\ file = NoFile

Next ==
    \/ StripLine
    \/ StripCrash
    \/ StripReturn
    \/ ShortenAllVariableNames
    \/ ShortenPanic
    \/ RemoveExtraSpaces
    \/ RemoveAllNewLines
    \/ SaveToFile

Spec == Init /\ [][Next]_vars

(***************************************************************************)
(* Inputs of the renamer: comment-free lines built from variable tokens.   *)
(***************************************************************************)
MaxVarWords == 3

VarWords == { <<"$">>, <<"$", "a">>, <<"$", "A">>, <<"$", "b">>, <<"$", "a", "b">>,
              <<ESCChar2, "$", "a">>, <<"$", "_">>, <<" ">> }

VarInputs == TwoLinesOf(VarWords, MaxVarWords)

InitVars ==
    /\ orig \in VarInputs
    /\ lines = orig
    /\ pc = "shorten"
    /\ i = Len(orig) + 1
    /\ multi = FALSE
    /\ psVars = <<>>
    /\ file = NoFile

NextVars == ShortenAllVariableNames

SpecVars == InitVars /\ [][NextVars]_vars

(***************************************************************************)
(* Inputs of generateShortNames: the slice as shortenVariables hands it    *)
(* over (sorted by count, aliases assigned, sorted by name length), for a  *)
(* script with the n variables $V1 .. $Vn, one of them possibly escaped.   *)
(***************************************************************************)
MaxVars == 104

\* the name of the k-th variable of the script, escaped if k = esc
GenName(k, esc) ==
    (IF k = esc THEN <<ESCChar2>> ELSE <<>>) \o <<Sigil, "V">> \o Itoa(k)

GenInput(n, esc) ==
    assignUniqueRandomNames(
        Sort([j \in 1..n |-> NewPSVariable(GenName((n + 1) - j, esc), 1)]), 0)

\* generateShortNames, as a step of shortenVariables
GenerateShortNames ==
    /\ pc = "generate"
    /\ psVars' = generateShortNames(psVars)
    /\ pc' = "named"
    /\ UNCHANGED <<orig, lines, i, multi, file>>

InitGen ==
    /\ \E n \in 0..MaxVars, esc \in 0..MaxVars :
          /\ esc <= n
          /\ psVars = GenInput(n, esc)
    /\ pc = "generate"
    /\ orig = <<>>
    /\ lines = <<>>
    /\ i = 1
    /\ multi = FALSE
    /\ file = NoFile

NextGen == GenerateShortNames

SpecGen == InitGen /\ [][NextGen]_vars

(***************************************************************************)
(* Inputs of the comment stripper: lines built from the comment markers,   *)
(* the escape markers and one plain character.                             *)
(***************************************************************************)
MaxStripWords == 4
MaxPairWords == 3

StripWords == { <<"a">>, <<"#">>, <<"<">>, <<">">>, <<ESCChar2>>, <<ESCChar1>>,
                <<"<", "#">>, <<"#", ">">> }

\* one line of at most MaxStripWords words, or two lines of at most
\* MaxPairWords words together, or no line at all
StripInputs ==
    {<<l>> : l \in LinesOf(StripWords, MaxStripWords)}
    \cup TwoLinesOf(StripWords, MaxPairWords)
    \cup {<<>>}

InitStrip ==
    /\ orig \in StripInputs
    /\ lines = orig
    /\ pc = "strip"
    /\ i = 1
    /\ multi = FALSE
    /\ psVars = <<>>
    /\ file = NoFile

NextStrip == StripLine \/ StripCrash \/ StripReturn

SpecStrip == InitStrip /\ [][NextStrip]_vars

(***************************************************************************)
(* Properties of the comment stripper (SpecStrip)                          *)
(***************************************************************************)
NoChar(s, c) == \A k \in DOMAIN s : s[k] # c

CloseSeq == <<CHARComment, GT>>

\* C5: idempotence of comment stripping: once stripAllComments has completed,
\* running it again from the Normal state on its own output completes and
\* returns that output unchanged, line for line.
C5_StripIdempotent ==
    pc = "shorten" =>
        LET again == stripAllComments(lines)
        IN ~again.panic /\ again.lines = lines

\* a completed run that removed a comment and kept an escaped marker
C5_Witness ==
    /\ pc = "shorten"
    /\ \E k \in DOMAIN lines : lines[k] # orig[k] /\ ~NoChar(lines[k], CHARComment)

\* the first line opens a block comment at a and no close sequence follows
\* in the rest of that line or in a later line
OpensUnterminated(ls, a) ==
    /\ a + 1 <= Len(ls[1])
    /\ ls[1][a] = LT /\ ls[1][a + 1] = CHARComment
    /\ NoChar(SubSeq(ls[1], 1, a - 1), CHARComment)
    /\ ~Contains(SubSeq(ls[1], a + 2, Len(ls[1])), CloseSeq)
    /\ \A k \in 2..Len(ls) : ~Contains(ls[k], CloseSeq)

\* C6: an unterminated block comment is accepted silently: stripAllComments
\* does not crash, whatever follows the opening, and every line after the
\* opening line comes out empty.
C6_UnterminatedAccepted ==
    (Len(orig) >= 1 /\ \E a \in DOMAIN orig[1] : OpensUnterminated(orig, a)) =>
        /\ pc # "panic"
        /\ pc = "shorten" => \A k \in 2..Len(lines) : lines[k] = <<>>

\* the places <<a, b>> of a line P + "<#" + C + "#>" + S: "<#" at a, "#>" at b,
\* no marker in P or S, no close sequence in C
MidLineSplits(line) ==
    {ab \in (DOMAIN line) \X (DOMAIN line) :
        /\ ab[1] + 2 <= ab[2] /\ ab[2] + 1 <= Len(line)
        /\ line[ab[1]] = LT /\ line[ab[1] + 1] = CHARComment
        /\ line[ab[2]] = CHARComment /\ line[ab[2] + 1] = GT
        /\ NoChar(SubSeq(line, 1, ab[1] - 1), CHARComment)
        /\ NoChar(SubSeq(line, ab[2] + 2, Len(line)), CHARComment)
        /\ ~Contains(SubSeq(line, ab[1] + 2, ab[2] - 1), CloseSeq)}

MidLineResult(line, ab) ==
    SubSeq(line, 1, ab[1] - 1) \o SubSeq(line, ab[2] + 2, Len(line))

\* C7: a line P + "<#" + C + "#>" + S stripped in the Normal state becomes
\* exactly P + S, and the state after it is Normal.
C7_MidLineBlockComment ==
    [][ (pc = "strip" /\ i <= Len(lines) /\ ~multi) =>
            \A ab \in MidLineSplits(lines[i]) :
                /\ pc' = "strip"
                /\ multi' = FALSE
                /\ lines'[i] = MidLineResult(lines[i], ab) ]_vars

\* the first line had text on both sides of a block comment and was stripped
C7_Witness ==
    /\ pc = "strip" /\ i = 2 /\ ~multi
    /\ \E ab \in MidLineSplits(orig[1]) :
          /\ ab[1] > 1 /\ ab[2] + 1 < Len(orig[1])
          /\ lines[1] = MidLineResult(orig[1], ab)

\* the places e of a line P + escape + "#" + S with no marker in P
EscSplits(line) ==
    {e \in DOMAIN line :
        /\ e + 1 <= Len(line)
        /\ line[e] \in {ESCChar1, ESCChar2} /\ line[e + 1] = CHARComment
        /\ NoChar(SubSeq(line, 1, e - 1), CHARComment)}

\* C8: in the Normal state a marker right after an escape marker is copied as
\* a literal and starts no comment: the line comes out as P, the escape, the
\* marker, and then what the rest S of the line yields when stripped after any
\* plain character, with the state S leaves; a rest without a marker is
\* copied whole and the state stays Normal.
C8_EscapedMarker ==
    [][ (pc = "strip" /\ i <= Len(lines) /\ ~multi) =>
            \A e \in EscSplits(lines[i]) :
                LET S == SubSeq(lines[i], e + 2, Len(lines[i]))
                    r == stripComments(<<"a">> \o S, FALSE)
                IN IF r.panic THEN pc' = "panic"
                   ELSE /\ pc' = "strip"
                        /\ lines'[i] = SubSeq(lines[i], 1, e + 1) \o Tail(r.line)
                        /\ multi' = r.multi
                        /\ NoChar(S, CHARComment) =>
                               lines'[i] = lines[i] /\ multi' = FALSE ]_vars

\* the first line held an escaped marker followed by text and was stripped
C8_Witness ==
    /\ pc = "strip" /\ i = 2 /\ ~multi
    /\ \E e \in EscSplits(orig[1]) :
          /\ e + 1 < Len(orig[1])
          /\ lines[1] = orig[1]

(***************************************************************************)
(* Properties of the renamer (SpecVars, SpecGen)                           *)
(***************************************************************************)
\* the j-th name (from 0) of the allocation sequence $A, $B, ..., $y, $A0, ...
AllocName(j) ==
    <<Sigil, varShortNames[(j % 51) + 1]>>
        \o (IF j >= 51 THEN Itoa((j \div 51) - 1) ELSE <<>>)

IsAllocated(name, bound) == \E j \in 0..bound : AllocName(j) = name

\* the place of a short name in the allocation sequence
AllocIndex(name, bound) == CHOOSE j \in 0..bound : AllocName(j) = name

Renamed == pc = "spaces"

\* C1: frequency-rank monotonicity: of two non-reserved variables the one that
\* occurs strictly more often has the earlier short name of the allocation
\* sequence, whatever the lengths of the original names.
C1_FrequencyRank ==
    Renamed =>
        \A a, b \in DOMAIN psVars :
            (/\ ~psVars[a].Reserved /\ ~psVars[b].Reserved
             /\ psVars[a].Count > psVars[b].Count) =>
                /\ IsAllocated(psVars[a].ShortName, Len(psVars))
                /\ IsAllocated(psVars[b].ShortName, Len(psVars))
                /\ AllocIndex(psVars[a].ShortName, Len(psVars))
                       < AllocIndex(psVars[b].ShortName, Len(psVars))

\* the number of matches of the variable pattern in ls that are name; with
\* fold, compared case-insensitively
Occurrences(ls, name, fold) ==
    LET ms == AllMatches(ls)
    IN Cardinality({k \in DOMAIN ms :
                       (IF fold THEN ToUpper(ms[k]) ELSE ms[k]) = name})

\* C3: renaming is a bijection on occurrence sites: every non-reserved variable
\* has as many occurrences of its short name in the output as its original
\* name has (case-insensitively) in the input, and no alias text remains.
C3_RenameBijection ==
    Renamed =>
        /\ \A k \in DOMAIN psVars :
              ~psVars[k].Reserved =>
                  Occurrences(orig, psVars[k].OriginalName, TRUE)
                      = Occurrences(lines, psVars[k].ShortName, FALSE)
        /\ \A k \in DOMAIN lines : ~Contains(lines[k], <<"~", "~">>)

IsReservedToken(t) == ToUpper(t) \in reservedPSVariables \/ t[1] = ESCChar2

\* the reserved matches of a line, in order, as written
ReservedTokens(line) ==
    LET ms == FindAll(line)
    IN SelectSeq(ms, IsReservedToken)

\* C4: reserved variables pass through untouched: the occurrences of reserved
\* variables of every line are in the output with exactly the characters,
\* letter case included, they have in the input.
C4_ReservedUntouched ==
    Renamed =>
        \A k \in DOMAIN orig : ReservedTokens(lines[k]) = ReservedTokens(orig[k])

\* the variables of the slice that are not reserved, in slice order
NonReserved(p) == SelectSeq(p, LAMBDA v : ~v.Reserved)

\* C2: no short-name collision: after generateShortNames the non-reserved
\* variables have pairwise different short names, below and above 51
\* variables, and the reserved ones take no slot: the non-reserved variables
\* get the names of the allocation sequence in order, without a gap, and a
\* reserved variable keeps its original name.
C2_NoShortNameCollision ==
    pc = "named" =>
        LET q == NonReserved(psVars)
        IN /\ Cardinality({q[k].ShortName : k \in DOMAIN q}) = Len(q)
           /\ \A k \in DOMAIN q : q[k].ShortName = AllocName(k - 1)
           /\ \A k \in DOMAIN psVars :
                 psVars[k].Reserved => psVars[k].ShortName = psVars[k].OriginalName

\* more than 51 non-reserved variables named, a reserved one among them
C2_Witness ==
    /\ pc = "named"
    /\ Len(NonReserved(psVars)) > 51
    /\ \E k \in DOMAIN psVars : psVars[k].Reserved /\ k > 1 /\ k < Len(psVars)
    /\ \E k \in DOMAIN psVars : Len(psVars[k].ShortName) = 3

(***************************************************************************)
(* Properties of the spacing compactor (SpecSpace) and of main() (Spec)    *)
(***************************************************************************)
\* C9: the spacing compactor reaches a fixed point: after removeExtraSpaces no
\* pattern of its substitution list is left on a line, and a second
\* application changes nothing.
C9_SpacesFixedPoint ==
    pc = "join" =>
        /\ \A k \in DOMAIN lines : \A n \in DOMAIN spaceSubstitutions :
              ~Contains(lines[k], spaceSubstitutions[n].old)
        /\ removeExtraSpaces(lines) = lines

\* the run of the stages over ls in which the range over the map yields the
\* names in the order TLC's CHOOSE fixes and the random source starts at seed
ReferenceRun(ls, seed) ==
    LET stripped == stripAllComments(ls).lines
        order == CHOOSE o \in MapOrders(DOMAIN psVarMap(stripped)) : TRUE
        renamed == shortenVariables(getVariables(stripped, order), stripped, seed).lines
    IN removeAllNewLines(removeExtraSpaces(renamed))

\* C10: deterministic output: every run of the four stages over an input ends
\* with the output of the reference run over that input, so that any two runs
\* agree, whatever aliases are drawn and in whatever order the variables are
\* enumerated.
C10_DeterministicOutput ==
    pc = "save" => lines = ReferenceRun(orig, 171)

(***************************************************************************)
(* Failure of the random source (Spec)                                     *)
(***************************************************************************)
\* C11: a failure to generate an alias is fatal: the run panics at that
\* point, the lines are still the ones the comment stripper left (no
\* substitution pass has rewritten one), nothing runs after the panic and the
\* output file is never created.
C11_AliasFailureFatal ==
    /\ [](pc = "panic" => file = NoFile)
    /\ [][/\ pc = "panic" => FALSE
          /\ (pc = "shorten" /\ pc' = "panic") =>
                /\ lines' = lines
                /\ lines' = stripAllComments(orig).lines]_vars

\* the alias of the second variable failed after the first got its own, in a
\* script that has variables to substitute
C11_Witness ==
    /\ pc = "panic"
    /\ Len(psVars) >= 2
    /\ psVars[1].UniqueName # <<>>
    /\ psVars[2].UniqueName = <<>>
    /\ \E k \in DOMAIN lines : Contains(lines[k], <<Sigil>>)
    /\ file = NoFile

(***************************************************************************)
(* The close transition of the comment stripper (SpecStrip)                *)
(***************************************************************************)
\* the places b of the first close sequence "#>" of a line whose text after
\* it holds no comment marker
CloseSplits(line) ==
    {b \in DOMAIN line :
        /\ b + 1 <= Len(line)
        /\ line[b] = CHARComment /\ line[b + 1] = GT
        /\ ~Contains(SubSeq(line, 1, b), CloseSeq)
        /\ NoChar(SubSeq(line, b + 2, Len(line)), CHARComment)}

\* C12: a line processed in the InBlockComment state that holds the close
\* sequence "#>" at any place, its first character included, puts the state
\* back to Normal, and the line becomes the text after the close sequence.
C12_BlockCommentClose ==
    [][ (pc = "strip" /\ i <= Len(lines) /\ multi) =>
            \A b \in CloseSplits(lines[i]) :
                /\ pc' = "strip"
                /\ multi' = FALSE
                /\ lines'[i] = SubSeq(lines[i], b + 2, Len(lines[i])) ]_vars

(***************************************************************************)
(* Properties of the line joiner (SpecJoin)                                *)
(***************************************************************************)
Joined == pc = "save"

\* a line with a character that is not white space
NonBlank(line) == \E c \in DOMAIN line : ~IsSpace(line[c])

\* the text of a non-blank line between its first and its last character
\* that is not white space
Trimmed(line) ==
    LET solid == {c \in DOMAIN line : ~IsSpace(line[c])}
        first == CHOOSE c \in solid : \A d \in solid : c <= d
        last  == CHOOSE c \in solid : \A d \in solid : d <= c
    IN SubSeq(line, first, last)

LastOf(line) == Trimmed(line)[Len(Trimmed(line))]

\* the place in the output of the k-th input line, when it is not blank
EmittedAt(k) == Cardinality({j \in 1..k : NonBlank(orig[j])})

EndsWithParam(t) == Len(t) >= 5 /\ SubSeq(t, Len(t) - 4, Len(t)) = ParamKeyword

\* C13: a non-empty trimmed line ending in "M" is emitted unchanged when it
\* ends with the keyword PARAM, and with one ";" appended otherwise, whether
\* it has fewer than 5 characters or 5 and more.
C13_LinesEndingInM ==
    Joined =>
        \A k \in DOMAIN orig :
            (NonBlank(orig[k]) /\ LastOf(orig[k]) = "M") =>
                /\ EmittedAt(k) \in DOMAIN lines
                /\ lines[EmittedAt(k)] =
                      IF EndsWithParam(Trimmed(orig[k]))
                      THEN Trimmed(orig[k])
                      ELSE Trimmed(orig[k]) \o <<";">>

\* C14: a non-empty trimmed line whose last character is none of "{", "(",
\* ";", "]" and "M" is emitted with exactly one ";" appended, closing brace
\* and closing parenthesis included.
C14_DefaultSeparator ==
    Joined =>
        \A k \in DOMAIN orig :
            (NonBlank(orig[k]) /\ LastOf(orig[k]) \notin {"{", "(", ";", "]", "M"}) =>
                /\ EmittedAt(k) \in DOMAIN lines
                /\ lines[EmittedAt(k)] = Trimmed(orig[k]) \o <<";">>

\* C14 as the code has it: the closing brace belongs to the characters that
\* get nothing appended; every final character other than "{", "}", "(", ";",
\* "]" and "M", closing parenthesis included, gets exactly one ";".
C14_DefaultSeparatorAmended ==
    Joined =>
        \A k \in DOMAIN orig :
            NonBlank(orig[k]) =>
                /\ EmittedAt(k) \in DOMAIN lines
                /\ LastOf(orig[k]) \notin {"{", "}", "(", ";", "]", "M"} =>
                      lines[EmittedAt(k)] = Trimmed(orig[k]) \o <<";">>
                /\ LastOf(orig[k]) = "}" =>
                      lines[EmittedAt(k)] = Trimmed(orig[k])

\* a line ending in ")" and a line ending in "}" were joined
C14_Witness ==
    /\ Joined
    /\ \E k \in DOMAIN orig : NonBlank(orig[k]) /\ LastOf(orig[k]) = ")"
    /\ \E k \in DOMAIN orig : NonBlank(orig[k]) /\ LastOf(orig[k]) = "}"

\* C15: blank lines are not emitted and the emitted lines keep the input
\* order, each beginning with the trimmed text of its line; a line ending in
\* "{", "(" or ";" is emitted as the trimmed text alone, a line ending in "]"
\* as the trimmed text followed by one line break.
C15_Continuation ==
    Joined =>
        /\ Len(lines) = Cardinality({k \in DOMAIN orig : NonBlank(orig[k])})
        /\ \A k \in DOMAIN orig :
              NonBlank(orig[k]) =>
                LET t == Trimmed(orig[k])
                    out == lines[EmittedAt(k)]
                IN /\ Len(out) >= Len(t) /\ SubSeq(out, 1, Len(t)) = t
                   /\ LastOf(orig[k]) \in {"{", "(", ";"} => out = t
                   /\ LastOf(orig[k]) = "]" => out = t \o <<"\n">>

\* a blank line was dropped in front of a padded line ending in "]"
C15_Witness ==
    /\ Joined
    /\ Len(orig) = 2
    /\ orig[1] # <<>> /\ ~NonBlank(orig[1])
    /\ NonBlank(orig[2]) /\ LastOf(orig[2]) = "]"
    /\ orig[2] # Trimmed(orig[2])
    /\ Len(lines) = 1

(***************************************************************************)
(* The operator table of the spacing compactor (SpecSpace)                 *)
(***************************************************************************)
Minus == <<"-">>

\* the input is an operand, a space, the token t, a space and an operand
SpacedAround(t) ==
    /\ Len(orig) = 1
    /\ \E l \in Operands, r \in Operands : orig[1] = TokenLine(l, TRUE, t, TRUE, r)

\* the output is the input without the spaces selected
Without(before, after) ==
    \E l \in Operands, r \in Operands, t \in operatorTokens :
        /\ orig[1] = TokenLine(l, TRUE, t, TRUE, r)
        /\ lines[1] = TokenLine(l, ~before, t, ~after, r)

\* C16: both substitutions are applied for every token of the table: a line
\* with single spaces around one token, the arithmetic minus included, comes
\* out with no space on either side of the token.
C16_BothSidesOfEveryToken ==
    pc = "join" =>
        \A t \in operatorTokens : SpacedAround(t) => Without(TRUE, TRUE)

\* C16 as the code has it: both substitutions for every token but the
\* arithmetic minus, which only loses the space after it ("A - B" becomes
\* "A -B").
C16_BothSidesButMinus ==
    pc = "join" =>
        /\ \A t \in operatorTokens \ {Minus} : SpacedAround(t) => Without(TRUE, TRUE)
        /\ SpacedAround(Minus) => Without(FALSE, TRUE)

\* a comparison operator with a space on each side was compacted
C16_Witness ==
    /\ pc = "join"
    /\ SpacedAround(<<"-", "E", "Q">>)
    /\ Without(TRUE, TRUE)

(***************************************************************************)
(* Short names under case-insensitive comparison (SpecGen)                 *)
(***************************************************************************)
\* C17: the short names stay distinct when compared without regard to case,
\* as the host language compares identifiers: no two non-reserved variables
\* get short names that are equal after case-folding.
C17_CaseInsensitiveDistinct ==
    pc = "named" =>
        LET q == NonReserved(psVars)
        IN \A j \in DOMAIN q : \A k \in DOMAIN q :
              j # k => ToUpper(q[j].ShortName) # ToUpper(q[k].ShortName)

====
